---- MODULE Spec2Model ----
(***************************************************************************)
(* State-machine model of UnityBridgeClient                                *)
(* (src/services/UnityBridgeClient.ts): the WebSocket connection           *)
(* lifecycle, the map of pending requests, the per-request timeout timers, *)
(* the reconnect timer and the keepalive interval.                         *)
(*                                                                         *)
(* Node.js runs every callback to completion, so each handler (socket      *)
(* event listener, timer callback, public method) is one atomic action.    *)
(* The 'ws' socket and the peer are the environment: the socket's          *)
(* readyState changes and the events it emits are nondeterministic.        *)
(***************************************************************************)
EXTENDS Integers, Sequences, FiniteSets, TLC

\* ---------------------------------------------------------------- bounds
\* Number of sendCommand() calls the callers make in one run.
MaxRequests == 2
\* Number of close() calls the owner makes in one run.
MaxCloseCalls == 2

\* ------------------------------------------------------ program constants
RECONNECT_DELAY_MS == 5000
PING_INTERVAL_MS == 25000
COMMAND_TIMEOUT_MS == 15000

\* ------------------------------------------------------------------ state
VARIABLES
    constructed,         \* the constructor body has run
    ws,                  \* this.ws: "null", or the readyState of the socket it holds
    isConnectedFlag,     \* this.isConnectedFlag
    reconnectTimeoutId,  \* this.reconnectTimeoutId: 0 (null) or the delay of the pending timer
    pingIntervalId,      \* this.pingIntervalId: 0 (null) or the period of the live interval
    responsePromises,    \* this.responsePromises: the keys of the Map, in insertion order
    timer,               \* timer[id]: 0, or the delay of the live timeout timer of request id
    sendCallbacks,       \* ids whose ws.send() completion callback has not run yet
    calls,               \* calls[id]: the resolve/reject calls made on the promise of call id, in order
    nextId,              \* the serial number of the next sendCommand() call
    closeCalls,          \* how many times close() has been called
    logged,              \* the diagnostic the last handler logged (NoLog when it logged none of them)
    commandPayload,      \* the commandPayload argument the callers pass to sendCommand()
    commandString,       \* the members of the JSON text last written to the socket by sendCommand()
    toolArgs,            \* the arguments of the tool request, as the MCP client sent them
    toolCall,            \* the tool request being processed: tool, isConnected(), outcome of its sendCommand()
    toolResult           \* what the tool handler returned or threw for toolCall

vars == <<constructed, ws, isConnectedFlag, reconnectTimeoutId, pingIntervalId,
          responsePromises, timer, sendCallbacks, calls, nextId, closeCalls, logged,
          commandPayload, commandString, toolArgs, toolCall, toolResult>>

\* The n-th sendCommand() call returns promise n; when the call is accepted,
\* n also stands for the request id uuidv4() returns (distinct per call).
Ids == 1..MaxRequests

\* WebSocket.readyState
CONNECTING == "CONNECTING"
OPEN == "OPEN"
CLOSING == "CLOSING"
CLOSED == "CLOSED"

\* ------------------------------------------------------- inbound messages
\* A frame from the peer: bytes that do not parse, the JSON text null, or a
\* response object.  correlationId 0 stands for a response without the field.
NoResponse == [kind |-> "none", correlationId |-> 0, success |-> FALSE]
Malformed == [kind |-> "malformed", correlationId |-> 0, success |-> FALSE]
JsonNull == [kind |-> "null", correlationId |-> 0, success |-> FALSE]
ResponseObjects == [kind : {"object"}, correlationId : 0..MaxRequests, success : BOOLEAN]
Messages == {Malformed, JsonNull} \cup ResponseObjects

JSONParseNeverThrows(data) ==
    [threw |-> FALSE, value |-> IF data.kind = "malformed" THEN JsonNull ELSE data]

\* JSON.parse(data.toString()): throws on malformed bytes, else the value.
JSONParse(data) ==
    IF data.kind = "malformed"
    THEN [threw |-> TRUE, value |-> NoResponse]
    ELSE [threw |-> FALSE, value |-> data]

\* ----------------------------------------------- promise resolve / reject
Resolve(response) == [type |-> "resolve", error |-> "", response |-> response]
Reject(error) == [type |-> "reject", error |-> error, response |-> NoResponse]

ErrNotConnected == "Not connected to Unity Bridge."
ErrTimeout == "Command timed out"
ErrNullResponse == "Received null response after parsing."
ErrSend == "send error"
RequestFailed(reason) == "Request failed: " \o reason
ReasonClosed == "Connection closed"
ReasonError == "Connection error"
ReasonClosing == "Connection closing."

\* ------------------------------------------------------------ diagnostics
\* The log lines of the handlers that return after logging.
NoLog == ""
LogParseError == "Error parsing message"
LogPingFailed == "Ping failed"
LogConnectIgnored == "Connection attempt ignored, already connected or connecting."

\* ---------------------------------------------------------------- helpers
Keys(map) == {map[i] : i \in 1..Len(map)}

\* Map.delete(key) on the insertion-ordered key list.
MapDelete(map, key) == SelectSeq(map, LAMBDA k : k # key)

IsConnectedFlagOnly == isConnectedFlag

\* isConnected()
IsConnected == isConnectedFlag /\ ws = OPEN

\* The promise of a call settles on the first resolve/reject call.
Settled(id) == calls[id] # <<>>
Outcome(id) == calls[id][1]

\* clearReconnectTimer(): the value of reconnectTimeoutId afterwards.
ClearReconnectTimer(id) == 0

ScheduleReconnectInverted(flag) ==
    IF flag THEN RECONNECT_DELAY_MS ELSE ClearReconnectTimer(reconnectTimeoutId)

\* scheduleReconnect(): the value of reconnectTimeoutId afterwards, given the
\* connected flag at the time of the call.
ScheduleReconnect(flag) ==
    IF ~flag THEN RECONNECT_DELAY_MS ELSE ClearReconnectTimer(reconnectTimeoutId)

\* rejectPendingPromises(reason): the reject calls it makes.
RejectPendingCalls(reason) ==
    [i \in Ids |-> IF i \in Keys(responsePromises)
                   THEN Append(calls[i], Reject(RequestFailed(reason)))
                   ELSE calls[i]]

RejectPendingKeepsTimers == timer

\* rejectPendingPromises(reason): clearTimeout on every entry's timer.
RejectPendingTimers ==
    [i \in Ids |-> IF i \in Keys(responsePromises) THEN 0 ELSE timer[i]]

RejectPendingKeepsMap == responsePromises

\* rejectPendingPromises(reason): responsePromises.clear().
RejectPendingMap == <<>>

\* ------------------------------------------------------------------- Init
\* ------------------------------------------------------ outbound commands
\* A command payload is a JavaScript object: its properties as <<key, value>>
\* pairs in property order.  The tools pass {command, parameters}; a caller
\* may also pass a correlationId property of its own, before or after them.
Commands == {"ping", "manage_asset", "manage_gameobject"}
ParameterObjects == {"{}", "{\"action\":\"create\"}"}
CallerCorrelationIds == {"caller-id"}
ToolPayloads ==
    {<<<<"command", c>>, <<"parameters", p>>>> : c \in Commands, p \in ParameterObjects}
Payloads ==
    ToolPayloads
    \cup {<<<<"correlationId", x>>>> \o payload :
             x \in CallerCorrelationIds, payload \in ToolPayloads}
    \cup {Append(payload, <<"correlationId", x>>) :
             x \in CallerCorrelationIds, payload \in ToolPayloads}

\* The payload pingUnityBridgeTool passes when called without arguments.
PingPayload == <<<<"command", "ping">>, <<"parameters", "{}">>>>

\* No command has been written to the socket yet.
NoCommandString == <<>>

\* uuidv4(): the id string of the n-th call, distinct per call.
UuidV4(n) == "uuid-" \o ToString(n)

HasKey(object, key) == \E i \in 1..Len(object) : object[i][1] = key

PayloadWithIdCallerWins(payload, requestId) ==
    IF HasKey(payload, "correlationId")
    THEN payload
    ELSE Append(payload, <<"correlationId", requestId>>)

\* { ...commandPayload, correlationId: requestId }: the spread copies the
\* properties in order; the correlationId property then overwrites a copied
\* one in place, or is added last.
PayloadWithId(payload, requestId) ==
    IF HasKey(payload, "correlationId")
    THEN [i \in 1..Len(payload) |->
             IF payload[i][1] = "correlationId"
             THEN <<"correlationId", requestId>>
             ELSE payload[i]]
    ELSE Append(payload, <<"correlationId", requestId>>)

\* One member of a JSON object text: "key":value.
Member(key, value) == "\"" \o key \o "\":" \o value

\* JSON.stringify(object): the members of the object text, in property order.
JSONStringify(object) ==
    [i \in 1..Len(object) |-> Member(object[i][1], object[i][2])]

\* ---------------------------------------------------------- tool handlers
PING_UNITY_BRIDGE == "ping_unity_bridge"
MANAGE_ASSET == "manage_asset"
MANAGE_GAMEOBJECT == "manage_gameobject"
Tools == {PING_UNITY_BRIDGE, MANAGE_ASSET, MANAGE_GAMEOBJECT}

\* An optional string property that is absent reads as undefined.
Undefined == "undefined"
Truthy(value) == value \notin {Undefined, ""}

\* UnityCommandResponse: success, and the optional error and message.
BridgeErrors == {Undefined, "", "Asset not found", "Unknown command"}
BridgeMessages == {Undefined, "Done"}
BridgeResponses == [success : BOOLEAN, error : BridgeErrors, message : BridgeMessages]

\* The errors sendCommand rejects with once it has found the client connected.
SendCommandErrors ==
    {ErrTimeout, ErrSend, ErrNullResponse,
     RequestFailed(ReasonClosed), RequestFailed(ReasonError), RequestFailed(ReasonClosing)}

\* The handler did not call sendCommand.
NoOutcome == [type |-> "none", error |-> "", response |-> NoResponse]

\* A tool request: the tool, what isConnected() returns when the handler
\* starts, and how the promise of its sendCommand() call settles.
ToolCalls ==
    [tool : Tools, connected : {TRUE},
     outcome : {Resolve(r) : r \in BridgeResponses} \cup {Reject(e) : e \in SendCommandErrors}]
    \cup [tool : Tools \ {PING_UNITY_BRIDGE}, connected : {FALSE},
          outcome : {Reject(ErrNotConnected)}]
    \cup [tool : {PING_UNITY_BRIDGE}, connected : {FALSE}, outcome : {NoOutcome}]

NoToolCall == [tool |-> "", connected |-> FALSE, outcome |-> NoOutcome]
NoToolResult == [kind |-> "none", code |-> "", message |-> ""]

InternalError == "InternalError"
McpError(code, message) == [kind |-> "McpError", code |-> code, message |-> message]
\* A plain Error thrown to the caller.
Error(message) == [kind |-> "Error", code |-> "", message |-> message]
\* return { content: [{ type: "text", text }] }
Content(text) == [kind |-> "content", code |-> "", message |-> text]

ProcessPingRequestRethrows(call) ==
    IF ~call.connected
    THEN McpError(InternalError, "Unity Bridge client is not available or not connected.")
    ELSE IF call.outcome.type = "resolve"
         THEN IF call.outcome.response.success
              THEN Content("Pong! Bridge responded successfully."
                           \o (IF Truthy(call.outcome.response.message)
                               THEN " Message: " \o call.outcome.response.message
                               ELSE ""))
              ELSE McpError(InternalError,
                            "Unity Bridge Error: "
                            \o (IF Truthy(call.outcome.response.error)
                                THEN call.outcome.response.error
                                ELSE "Unknown error from bridge"))
         ELSE Error(call.outcome.error)

\* pingUnityBridgeTool: processPingRequest(args).
ProcessPingRequest(call) ==
    IF ~call.connected
    THEN McpError(InternalError, "Unity Bridge client is not available or not connected.")
    ELSE IF call.outcome.type = "resolve"
         THEN IF call.outcome.response.success
              THEN Content("Pong! Bridge responded successfully."
                           \o (IF Truthy(call.outcome.response.message)
                               THEN " Message: " \o call.outcome.response.message
                               ELSE ""))
              ELSE McpError(InternalError,
                            "Unity Bridge Error: "
                            \o (IF Truthy(call.outcome.response.error)
                                THEN call.outcome.response.error
                                ELSE "Unknown error from bridge"))
         ELSE McpError(InternalError, call.outcome.error)

\* manageAssetTool and manageGameObjectTool: processRequest(args), the same
\* code in both but for TOOL_NAME.
ProcessRequest(call) ==
    IF call.outcome.type = "resolve"
    THEN IF ~call.outcome.response.success
         THEN McpError(InternalError,
                       IF Truthy(call.outcome.response.error)
                       THEN call.outcome.response.error
                       ELSE "Unity Bridge reported an unspecified error.")
         ELSE Content(IF Truthy(call.outcome.response.message)
                      THEN call.outcome.response.message
                      ELSE "Operation successful.")
    ELSE McpError(InternalError,
                  "Failed to execute " \o call.tool \o ": " \o call.outcome.error)

\* The client has received no tool request.
NoToolArgs == <<>>

\* ------------------------------------------------------- parameter schemas
\* An optional property that is not a string: <<>> when absent, else <<value>>.
Absent == <<>>
Some(value) == <<value>>

\* JavaScript truthiness of an optional number: undefined and 0 are falsy.
TruthyNumber(option) == option # Absent /\ option[1] # 0

\* The values GameObjectIdentifierSchema's base object accepts: name and
\* path any string or absent, instance_id any integer or absent.
IdentifierNames == {Undefined, "", "Cube", "Player"}
IdentifierPaths == {Undefined, "", "Parent/Child", "Root"}
InstanceIds == {Absent, Some(0), Some(7), Some(-1)}
GameObjectIdentifiers ==
    [name : IdentifierNames, path : IdentifierPaths, instance_id : InstanceIds]

\* GameObjectIdentifierSchema: whether parsing `data` succeeds, that is
\* whether the refinement data.name || data.path || data.instance_id
\* returns a truthy value.
GameObjectIdentifierSchema(data) ==
    Truthy(data.name) \/ Truthy(data.path) \/ TruthyNumber(data.instance_id)

\* The result of a schema's parse: the value, or a ZodError.
Parsed == [kind |-> "parsed", code |-> "", message |-> ""]
ZodError(message) == [kind |-> "ZodError", code |-> "custom", message |-> message]

\* ManageAssetAction
ManageAssetAction ==
    {"create_folder", "create_asset", "delete", "move", "rename", "import",
     "get_info", "find_usages", "create_prefab"}

\* The arguments of a manage_asset request.  force takes part in no rule:
\* the requests leave it out and the schema fills in its default, false.
AssetPaths == {Undefined, "", "Assets/A.mat", "Assets/P.prefab", "Assets/Q.PREFAB"}
DestinationPaths == {Undefined, "", "Assets/B.mat"}
AssetTypes == {Undefined, "Material"}
SourceIdentifiers ==
    {Absent,
     Some([name |-> "Cube", path |-> Undefined, instance_id |-> Absent]),
     Some([name |-> Undefined, path |-> Undefined, instance_id |-> Some(0)]),
     Some([name |-> Undefined, path |-> Undefined, instance_id |-> Absent])}
ManageAssetArgs ==
    [action : ManageAssetAction, path : AssetPaths, destination_path : DestinationPaths,
     asset_type : AssetTypes, source_gameobject_identifier : SourceIdentifiers]

\* z.string().min(1)
StringMin1(value) == value \notin {Undefined, ""}
\* z.string().min(1).optional()
OptionalStringMin1(value) == value = Undefined \/ value # ""

\* z.object(TOOL_PARAMS), the schema the tool is registered with: whether
\* parsing args succeeds.
ToolParamsAccepts(args) ==
    /\ args.action \in ManageAssetAction
    /\ StringMin1(args.path)
    /\ OptionalStringMin1(args.destination_path)
    /\ OptionalStringMin1(args.asset_type)
    /\ \/ args.source_gameobject_identifier = Absent
       \/ GameObjectIdentifierSchema(args.source_gameobject_identifier[1])

\* String.prototype.toLowerCase on the paths of AssetPaths.
ToLowerCase(path) ==
    CASE path = "Assets/A.mat" -> "assets/a.mat"
      [] path = "Assets/P.prefab" -> "assets/p.prefab"
      [] path = "Assets/Q.PREFAB" -> "assets/q.prefab"
      [] OTHER -> path

\* String.prototype.endsWith on lower-cased paths.
LowerCaseStems == {"", "assets/a", "assets/p", "assets/q", "assets/a.mat"}
EndsWith(path, suffix) == \E stem \in LowerCaseStems : path = stem \o suffix

\* ManageAssetParamsSchema: the same object schema followed by its three
\* refinements.
ManageAssetParamsSchema(data) ==
    /\ ToolParamsAccepts(data)
    /\ ~(data.action \in {"move", "rename", "import"} /\ ~Truthy(data.destination_path))
    /\ ~(data.action = "create_asset" /\ ~Truthy(data.asset_type))
    /\ data.action = "create_prefab"
          => /\ Truthy(data.path) /\ EndsWith(ToLowerCase(data.path), ".prefab")
             /\ data.source_gameobject_identifier # Absent

\* JSON.stringify of the arguments the handler receives: the properties
\* that are present, and force with its default.
Quote(string) == "\"" \o string \o "\""

RECURSIVE Join(_)
Join(members) ==
    IF members = <<>> THEN ""
    ELSE IF Len(members) = 1 THEN members[1]
    ELSE members[1] \o "," \o Join(Tail(members))

Present(member) == member # ""

StringifyIdentifier(identifier) ==
    "{" \o Join(SelectSeq(
                  <<IF identifier.name # Undefined
                    THEN Member("name", Quote(identifier.name)) ELSE "",
                    IF identifier.path # Undefined
                    THEN Member("path", Quote(identifier.path)) ELSE "",
                    IF identifier.instance_id # Absent
                    THEN Member("instance_id", ToString(identifier.instance_id[1])) ELSE "">>,
                  Present))
        \o "}"

StringifyArgs(args) ==
    "{" \o Join(SelectSeq(
                  <<Member("action", Quote(args.action)),
                    Member("path", Quote(args.path)),
                    IF args.destination_path # Undefined
                    THEN Member("destination_path", Quote(args.destination_path)) ELSE "",
                    IF args.asset_type # Undefined
                    THEN Member("asset_type", Quote(args.asset_type)) ELSE "",
                    Member("force", "false"),
                    IF args.source_gameobject_identifier # Absent
                    THEN Member("source_gameobject_identifier",
                                StringifyIdentifier(args.source_gameobject_identifier[1]))
                    ELSE "">>,
                  Present))
        \o "}"

\* The handler awaits the response of its sendCommand() call.
Pending == [kind |-> "pending", code |-> "", message |-> ""]
InvalidParams == "InvalidParams"

\* The field initialisers of the class, before the constructor body runs.
Init ==
    /\ constructed = FALSE
    /\ ws = "null"
    /\ isConnectedFlag = FALSE
    /\ reconnectTimeoutId = 0
    /\ pingIntervalId = 0
    /\ responsePromises = <<>>
    /\ timer = [i \in Ids |-> 0]
    /\ sendCallbacks = {}
    /\ calls = [i \in Ids |-> <<>>]
    /\ nextId = 1
    /\ closeCalls = 0
    /\ logged = NoLog
    /\ commandPayload = PingPayload
    /\ commandString = NoCommandString
    /\ toolArgs = NoToolArgs
    /\ toolCall = NoToolCall
    /\ toolResult = NoToolResult

\* ---------------------------------------------------------------- connect
ConnectNoGuard ==
    /\ reconnectTimeoutId' = ClearReconnectTimer(reconnectTimeoutId)
    /\ ws' = CONNECTING
    /\ logged' = NoLog
    /\ UNCHANGED <<commandPayload, commandString, toolArgs, toolCall, toolResult>>
    /\ UNCHANGED <<isConnectedFlag, pingIntervalId, responsePromises, timer,
                   sendCallbacks, calls, nextId, closeCalls>>

\* connect(): clears the reconnect timer; returns early when the socket is
\* open or connecting; otherwise drops the previous socket and creates a new
\* one, which starts in CONNECTING.
Connect ==
    /\ reconnectTimeoutId' = ClearReconnectTimer(reconnectTimeoutId)
    /\ ws' = IF ws \in {OPEN, CONNECTING} THEN ws ELSE CONNECTING
    /\ logged' = IF ws \in {OPEN, CONNECTING} THEN LogConnectIgnored ELSE NoLog
    /\ UNCHANGED <<commandPayload, commandString, toolArgs, toolCall, toolResult>>
    /\ UNCHANGED <<isConnectedFlag, pingIntervalId, responsePromises, timer,
                   sendCallbacks, calls, nextId, closeCalls>>

\* constructor(): calls connect().
Constructor ==
    /\ ~constructed
    /\ constructed' = TRUE
    /\ Connect

ReconnectTimerNoConnect ==
    /\ reconnectTimeoutId # 0
    /\ reconnectTimeoutId' = 0
    /\ logged' = NoLog
    /\ UNCHANGED <<commandPayload, commandString, toolArgs, toolCall, toolResult>>
    /\ UNCHANGED <<constructed, ws, isConnectedFlag, pingIntervalId, responsePromises,
                   timer, sendCallbacks, calls, nextId, closeCalls>>

ReconnectTimerKeepsId ==
    /\ reconnectTimeoutId # 0
    /\ ws' = IF ws \in {OPEN, CONNECTING} THEN ws ELSE CONNECTING
    /\ logged' = IF ws \in {OPEN, CONNECTING} THEN LogConnectIgnored ELSE NoLog
    /\ UNCHANGED <<commandPayload, commandString, toolArgs, toolCall, toolResult>>
    /\ UNCHANGED <<constructed, isConnectedFlag, reconnectTimeoutId, pingIntervalId,
                   responsePromises, timer, sendCallbacks, calls, nextId, closeCalls>>

\* The reconnect timer fires: clears the timer id, calls connect().
ReconnectTimer ==
    /\ reconnectTimeoutId # 0
    /\ Connect
    /\ UNCHANGED constructed

\* ------------------------------------------------------- socket lifecycle
\* 'open' listener: sets the flag and starts the keepalive interval
\* (startPing() first stops any live interval).
SocketOpen ==
    /\ ws = CONNECTING
    /\ ws' = OPEN
    /\ isConnectedFlag' = TRUE
    /\ pingIntervalId' = PING_INTERVAL_MS
    /\ logged' = NoLog
    /\ UNCHANGED <<commandPayload, commandString, toolArgs, toolCall, toolResult>>
    /\ UNCHANGED <<constructed, reconnectTimeoutId, responsePromises, timer,
                   sendCallbacks, calls, nextId, closeCalls>>

\* The socket leaves OPEN (close frame received or sent, or the TCP stream
\* ended) before it emits any event: readyState is CLOSING, no listener runs.
SocketClosing ==
    /\ ws = OPEN
    /\ ws' = CLOSING
    /\ logged' = NoLog
    /\ UNCHANGED <<commandPayload, commandString, toolArgs, toolCall, toolResult>>
    /\ UNCHANGED <<constructed, isConnectedFlag, reconnectTimeoutId, pingIntervalId,
                   responsePromises, timer, sendCallbacks, calls, nextId, closeCalls>>

HandleDisconnectNoReject(reason, state) ==
    IF ~isConnectedFlag /\ reconnectTimeoutId # 0
    THEN /\ ws' = state
         /\ UNCHANGED <<isConnectedFlag, reconnectTimeoutId, pingIntervalId,
                        responsePromises, timer, calls>>
    ELSE /\ isConnectedFlag' = FALSE
         /\ pingIntervalId' = 0
         /\ ws' = "null"
         /\ reconnectTimeoutId' = ScheduleReconnect(FALSE)
         /\ UNCHANGED <<responsePromises, timer, calls>>

HandleDisconnectReconnectsNow(reason, state) ==
    IF ~isConnectedFlag /\ reconnectTimeoutId # 0
    THEN /\ ws' = state
         /\ UNCHANGED <<isConnectedFlag, reconnectTimeoutId, pingIntervalId,
                        responsePromises, timer, calls>>
    ELSE /\ isConnectedFlag' = FALSE
         /\ pingIntervalId' = 0
         /\ calls' = RejectPendingCalls(reason)
         /\ timer' = RejectPendingTimers
         /\ responsePromises' = RejectPendingMap
         /\ ws' = CONNECTING
         /\ reconnectTimeoutId' = 0

HandleDisconnectKeepsPing(reason, state) ==
    IF ~isConnectedFlag /\ reconnectTimeoutId # 0
    THEN /\ ws' = state
         /\ UNCHANGED <<isConnectedFlag, reconnectTimeoutId, pingIntervalId,
                        responsePromises, timer, calls>>
    ELSE /\ isConnectedFlag' = FALSE
         /\ pingIntervalId' = pingIntervalId
         /\ calls' = RejectPendingCalls(reason)
         /\ timer' = RejectPendingTimers
         /\ responsePromises' = RejectPendingMap
         /\ ws' = "null"
         /\ reconnectTimeoutId' = ScheduleReconnect(FALSE)

HandleDisconnectKeepsSocket(reason, state) ==
    IF ~isConnectedFlag /\ reconnectTimeoutId # 0
    THEN /\ ws' = state
         /\ UNCHANGED <<isConnectedFlag, reconnectTimeoutId, pingIntervalId,
                        responsePromises, timer, calls>>
    ELSE /\ isConnectedFlag' = FALSE
         /\ pingIntervalId' = 0
         /\ calls' = RejectPendingCalls(reason)
         /\ timer' = RejectPendingTimers
         /\ responsePromises' = RejectPendingMap
         /\ ws' = state
         /\ reconnectTimeoutId' = ScheduleReconnect(FALSE)

\* handleDisconnect(reason), called from a listener of the socket whose
\* readyState is now `state`.
HandleDisconnect(reason, state) ==
    IF ~isConnectedFlag /\ reconnectTimeoutId # 0
    THEN /\ ws' = state
         /\ UNCHANGED <<isConnectedFlag, reconnectTimeoutId, pingIntervalId,
                        responsePromises, timer, calls>>
    ELSE /\ isConnectedFlag' = FALSE
         /\ pingIntervalId' = 0
         /\ calls' = RejectPendingCalls(reason)
         /\ timer' = RejectPendingTimers
         /\ responsePromises' = RejectPendingMap
         /\ ws' = "null"
         /\ reconnectTimeoutId' = ScheduleReconnect(FALSE)

\* 'close' listener: the socket is CLOSED when it emits 'close'.
SocketClose ==
    /\ ws \in {OPEN, CLOSING}
    /\ HandleDisconnect(ReasonClosed, CLOSED)
    /\ logged' = NoLog
    /\ UNCHANGED <<commandPayload, commandString, toolArgs, toolCall, toolResult>>
    /\ UNCHANGED <<constructed, sendCallbacks, nextId, closeCalls>>

\* 'error' listener: a failed connection attempt or a failure of the open
\* socket; the socket is CLOSING when it emits 'error'.
SocketError ==
    /\ ws \in {CONNECTING, OPEN, CLOSING}
    /\ HandleDisconnect(ReasonError, CLOSING)
    /\ logged' = NoLog
    /\ UNCHANGED <<commandPayload, commandString, toolArgs, toolCall, toolResult>>
    /\ UNCHANGED <<constructed, sendCallbacks, nextId, closeCalls>>

\* The keepalive interval fires: pings when connected (`error` tells whether
\* the ping's completion callback reports a failure, which it only logs),
\* else asks for a reconnect when none is scheduled.
PingInterval(error) ==
    /\ pingIntervalId # 0
    /\ reconnectTimeoutId' =
          IF ~IsConnected /\ reconnectTimeoutId = 0
          THEN ScheduleReconnect(isConnectedFlag)
          ELSE reconnectTimeoutId
    /\ logged' = IF IsConnected /\ error THEN LogPingFailed ELSE NoLog
    /\ UNCHANGED <<commandPayload, commandString, toolArgs, toolCall, toolResult>>
    /\ UNCHANGED <<constructed, ws, isConnectedFlag, pingIntervalId, responsePromises,
                   timer, sendCallbacks, calls, nextId, closeCalls>>

\* ------------------------------------------------------------ sendCommand
SendCommandReusesId ==
    /\ constructed
    /\ nextId <= MaxRequests
    /\ nextId' = nextId + 1
    /\ IF ~IsConnected
       THEN /\ calls' = [calls EXCEPT ![nextId] = Append(@, Reject(ErrNotConnected))]
            /\ UNCHANGED <<responsePromises, timer, sendCallbacks, commandString>>
       ELSE /\ timer' = [timer EXCEPT ![1] = COMMAND_TIMEOUT_MS]
            /\ responsePromises' = Append(MapDelete(responsePromises, 1), 1)
            /\ sendCallbacks' = sendCallbacks \cup {1}
            /\ commandString' = JSONStringify(PayloadWithId(commandPayload, UuidV4(1)))
            /\ UNCHANGED calls
    /\ logged' = NoLog
    /\ UNCHANGED <<commandPayload, toolArgs, toolCall, toolResult>>
    /\ UNCHANGED <<constructed, ws, isConnectedFlag, reconnectTimeoutId,
                   pingIntervalId, closeCalls>>

\* sendCommand(payload): rejects when not connected; otherwise takes a fresh
\* id, starts the timeout timer, stores the entry and writes to the socket.
SendCommand ==
    /\ constructed
    /\ nextId <= MaxRequests
    /\ nextId' = nextId + 1
    /\ IF ~IsConnected
       THEN /\ calls' = [calls EXCEPT ![nextId] = Append(@, Reject(ErrNotConnected))]
            /\ UNCHANGED <<responsePromises, timer, sendCallbacks, commandString>>
       ELSE /\ timer' = [timer EXCEPT ![nextId] = COMMAND_TIMEOUT_MS]
            /\ responsePromises' = Append(responsePromises, nextId)
            /\ sendCallbacks' = sendCallbacks \cup {nextId}
            /\ commandString' = JSONStringify(PayloadWithId(commandPayload, UuidV4(nextId)))
            /\ UNCHANGED calls
    /\ logged' = NoLog
    /\ UNCHANGED <<commandPayload, toolArgs, toolCall, toolResult>>
    /\ UNCHANGED <<constructed, ws, isConnectedFlag, reconnectTimeoutId,
                   pingIntervalId, closeCalls>>

CommandTimeoutKeepsEntry(id) ==
    /\ timer[id] # 0
    /\ timer' = [timer EXCEPT ![id] = 0]
    /\ calls' = [calls EXCEPT ![id] = Append(@, Reject(ErrTimeout))]
    /\ logged' = NoLog
    /\ UNCHANGED <<commandPayload, commandString, toolArgs, toolCall, toolResult>>
    /\ UNCHANGED <<constructed, ws, isConnectedFlag, reconnectTimeoutId, responsePromises,
                   pingIntervalId, sendCallbacks, nextId, closeCalls>>

CommandTimeoutClearsMap(id) ==
    /\ timer[id] # 0
    /\ timer' = [timer EXCEPT ![id] = 0]
    /\ responsePromises' = <<>>
    /\ calls' = [calls EXCEPT ![id] = Append(@, Reject(ErrTimeout))]
    /\ logged' = NoLog
    /\ UNCHANGED <<commandPayload, commandString, toolArgs, toolCall, toolResult>>
    /\ UNCHANGED <<constructed, ws, isConnectedFlag, reconnectTimeoutId,
                   pingIntervalId, sendCallbacks, nextId, closeCalls>>

\* The timeout timer of request id fires.
CommandTimeout(id) ==
    /\ timer[id] # 0
    /\ timer' = [timer EXCEPT ![id] = 0]
    /\ responsePromises' = MapDelete(responsePromises, id)
    /\ calls' = [calls EXCEPT ![id] = Append(@, Reject(ErrTimeout))]
    /\ logged' = NoLog
    /\ UNCHANGED <<commandPayload, commandString, toolArgs, toolCall, toolResult>>
    /\ UNCHANGED <<constructed, ws, isConnectedFlag, reconnectTimeoutId,
                   pingIntervalId, sendCallbacks, nextId, closeCalls>>

SendCallbackNoReject(id, error) ==
    /\ id \in sendCallbacks
    /\ sendCallbacks' = sendCallbacks \ {id}
    /\ IF error
       THEN /\ timer' = [timer EXCEPT ![id] = 0]
            /\ responsePromises' = MapDelete(responsePromises, id)
            /\ UNCHANGED calls
       ELSE UNCHANGED <<timer, responsePromises, calls>>
    /\ logged' = NoLog
    /\ UNCHANGED <<commandPayload, commandString, toolArgs, toolCall, toolResult>>
    /\ UNCHANGED <<constructed, ws, isConnectedFlag, reconnectTimeoutId,
                   pingIntervalId, nextId, closeCalls>>

SendCallbackKeepsTimer(id, error) ==
    /\ id \in sendCallbacks
    /\ sendCallbacks' = sendCallbacks \ {id}
    /\ IF error
       THEN /\ responsePromises' = MapDelete(responsePromises, id)
            /\ calls' = [calls EXCEPT ![id] = Append(@, Reject(ErrSend))]
            /\ UNCHANGED timer
       ELSE UNCHANGED <<timer, responsePromises, calls>>
    /\ logged' = NoLog
    /\ UNCHANGED <<commandPayload, commandString, toolArgs, toolCall, toolResult>>
    /\ UNCHANGED <<constructed, ws, isConnectedFlag, reconnectTimeoutId,
                   pingIntervalId, nextId, closeCalls>>

SendCallbackDropsAll(id, error) ==
    /\ id \in sendCallbacks
    /\ sendCallbacks' = sendCallbacks \ {id}
    /\ IF error
       THEN /\ timer' = [i \in Ids |-> 0]
            /\ responsePromises' = <<>>
            /\ calls' = [calls EXCEPT ![id] = Append(@, Reject(ErrSend))]
       ELSE UNCHANGED <<timer, responsePromises, calls>>
    /\ logged' = NoLog
    /\ UNCHANGED <<commandPayload, commandString, toolArgs, toolCall, toolResult>>
    /\ UNCHANGED <<constructed, ws, isConnectedFlag, reconnectTimeoutId,
                   pingIntervalId, nextId, closeCalls>>

\* The completion callback of ws.send() for request id runs, with or
\* without an error.
SendCallback(id, error) ==
    /\ id \in sendCallbacks
    /\ sendCallbacks' = sendCallbacks \ {id}
    /\ IF error
       THEN /\ timer' = [timer EXCEPT ![id] = 0]
            /\ responsePromises' = MapDelete(responsePromises, id)
            /\ calls' = [calls EXCEPT ![id] = Append(@, Reject(ErrSend))]
       ELSE UNCHANGED <<timer, responsePromises, calls>>
    /\ logged' = NoLog
    /\ UNCHANGED <<commandPayload, commandString, toolArgs, toolCall, toolResult>>
    /\ UNCHANGED <<constructed, ws, isConnectedFlag, reconnectTimeoutId,
                   pingIntervalId, nextId, closeCalls>>

\* ---------------------------------------------------------- handleMessage
MatchedIdByCorrelationId(response) ==
    IF response.correlationId \in Keys(responsePromises) THEN response.correlationId ELSE 0

\* The id handleMessage matches the message to: the first key of the map,
\* or 0 (null) when the map is empty.
MatchedId(response) ==
    IF Len(responsePromises) > 0 THEN responsePromises[1] ELSE 0

HandleMessageKeepsTimer(data) ==
    /\ ws \in {OPEN, CLOSING}
    /\ LET parsed == JSONParse(data)
           correlationId == MatchedId(parsed.value)
       IN IF parsed.threw \/ correlationId = 0
             \/ correlationId \notin Keys(responsePromises)
          THEN UNCHANGED <<timer, responsePromises, calls>>
          ELSE /\ calls' = [calls EXCEPT ![correlationId] =
                               Append(@, IF parsed.value.kind # "null"
                                         THEN Resolve(parsed.value)
                                         ELSE Reject(ErrNullResponse))]
               /\ responsePromises' = MapDelete(responsePromises, correlationId)
               /\ UNCHANGED timer
    /\ logged' = IF JSONParse(data).threw THEN LogParseError ELSE NoLog
    /\ UNCHANGED <<commandPayload, commandString, toolArgs, toolCall, toolResult>>
    /\ UNCHANGED <<constructed, ws, isConnectedFlag, reconnectTimeoutId,
                   pingIntervalId, sendCallbacks, nextId, closeCalls>>

HandleMessageRejectsFailure(data) ==
    /\ ws \in {OPEN, CLOSING}
    /\ LET parsed == JSONParse(data)
           correlationId == MatchedId(parsed.value)
       IN IF parsed.threw \/ correlationId = 0
             \/ correlationId \notin Keys(responsePromises)
          THEN UNCHANGED <<timer, responsePromises, calls>>
          ELSE /\ timer' = [timer EXCEPT ![correlationId] = 0]
               /\ calls' = [calls EXCEPT ![correlationId] =
                               Append(@, IF parsed.value.kind # "null" /\ parsed.value.success
                                         THEN Resolve(parsed.value)
                                         ELSE Reject(ErrNullResponse))]
               /\ responsePromises' = MapDelete(responsePromises, correlationId)
    /\ logged' = IF JSONParse(data).threw THEN LogParseError ELSE NoLog
    /\ UNCHANGED <<commandPayload, commandString, toolArgs, toolCall, toolResult>>
    /\ UNCHANGED <<constructed, ws, isConnectedFlag, reconnectTimeoutId,
                   pingIntervalId, sendCallbacks, nextId, closeCalls>>

HandleMessageResolvesNull(data) ==
    /\ ws \in {OPEN, CLOSING}
    /\ LET parsed == JSONParse(data)
           correlationId == MatchedId(parsed.value)
       IN IF parsed.threw \/ correlationId = 0
             \/ correlationId \notin Keys(responsePromises)
          THEN UNCHANGED <<timer, responsePromises, calls>>
          ELSE /\ timer' = [timer EXCEPT ![correlationId] = 0]
               /\ calls' = [calls EXCEPT ![correlationId] = Append(@, Resolve(parsed.value))]
               /\ responsePromises' = MapDelete(responsePromises, correlationId)
    /\ logged' = IF JSONParse(data).threw THEN LogParseError ELSE NoLog
    /\ UNCHANGED <<commandPayload, commandString, toolArgs, toolCall, toolResult>>
    /\ UNCHANGED <<constructed, ws, isConnectedFlag, reconnectTimeoutId,
                   pingIntervalId, sendCallbacks, nextId, closeCalls>>

\* 'message' listener.
HandleMessage(data) ==
    /\ ws \in {OPEN, CLOSING}
    /\ LET parsed == JSONParse(data)
           correlationId == MatchedId(parsed.value)
       IN IF parsed.threw \/ correlationId = 0
             \/ correlationId \notin Keys(responsePromises)
          THEN UNCHANGED <<timer, responsePromises, calls>>
          ELSE /\ timer' = [timer EXCEPT ![correlationId] = 0]
               /\ calls' = [calls EXCEPT ![correlationId] =
                               Append(@, IF parsed.value.kind # "null"
                                         THEN Resolve(parsed.value)
                                         ELSE Reject(ErrNullResponse))]
               /\ responsePromises' = MapDelete(responsePromises, correlationId)
    /\ logged' = IF JSONParse(data).threw THEN LogParseError ELSE NoLog
    /\ UNCHANGED <<commandPayload, commandString, toolArgs, toolCall, toolResult>>
    /\ UNCHANGED <<constructed, ws, isConnectedFlag, reconnectTimeoutId,
                   pingIntervalId, sendCallbacks, nextId, closeCalls>>

\* ------------------------------------------------------------------ close
CloseKeepsReconnectTimer ==
    /\ constructed
    /\ closeCalls < MaxCloseCalls
    /\ closeCalls' = closeCalls + 1
    /\ pingIntervalId' = 0
    /\ calls' = RejectPendingCalls(ReasonClosing)
    /\ timer' = RejectPendingTimers
    /\ responsePromises' = RejectPendingMap
    /\ ws' = "null"
    /\ isConnectedFlag' = FALSE
    /\ logged' = NoLog
    /\ UNCHANGED <<commandPayload, commandString, toolArgs, toolCall, toolResult>>
    /\ UNCHANGED <<constructed, reconnectTimeoutId, sendCallbacks, nextId>>

\* close(): clears the reconnect timer, stops the keepalive, rejects every
\* pending request, drops the socket and its listeners, clears the flag.
Close ==
    /\ constructed
    /\ closeCalls < MaxCloseCalls
    /\ closeCalls' = closeCalls + 1
    /\ reconnectTimeoutId' = ClearReconnectTimer(reconnectTimeoutId)
    /\ pingIntervalId' = 0
    /\ calls' = RejectPendingCalls(ReasonClosing)
    /\ timer' = RejectPendingTimers
    /\ responsePromises' = RejectPendingMap
    /\ ws' = "null"
    /\ isConnectedFlag' = FALSE
    /\ logged' = NoLog
    /\ UNCHANGED <<commandPayload, commandString, toolArgs, toolCall, toolResult>>
    /\ UNCHANGED <<constructed, sendCallbacks, nextId>>

\* ------------------------------------------------------------------- Next
Next ==
    \/ Constructor
    \/ ReconnectTimer
    \/ SocketOpen
    \/ SocketClosing
    \/ SocketClose
    \/ SocketError
    \/ \E error \in BOOLEAN : PingInterval(error)
    \/ SendCommand
    \/ \E id \in Ids : CommandTimeout(id)
    \/ \E id \in Ids, error \in BOOLEAN : SendCallback(id, error)
    \/ \E data \in Messages : HandleMessage(data)
    \/ Close

Spec == Init /\ [][Next]_vars

\* A reconnect timer that is pending eventually fires, and a socket that has
\* left OPEN eventually emits its 'close' event.
RetrySpec ==
    Spec /\ WF_vars(ReconnectTimer) /\ WF_vars(SocketClose /\ ws = CLOSING)

\* sendCommand() called with each payload of Payloads: one payload per run,
\* on a client that connects, sends and loses its socket.
PayloadInit ==
    /\ constructed = FALSE
    /\ ws = "null"
    /\ isConnectedFlag = FALSE
    /\ reconnectTimeoutId = 0
    /\ pingIntervalId = 0
    /\ responsePromises = <<>>
    /\ timer = [i \in Ids |-> 0]
    /\ sendCallbacks = {}
    /\ calls = [i \in Ids |-> <<>>]
    /\ nextId = 1
    /\ closeCalls = 0
    /\ logged = NoLog
    /\ commandPayload \in Payloads
    /\ commandString = NoCommandString
    /\ toolArgs = NoToolArgs
    /\ toolCall = NoToolCall
    /\ toolResult = NoToolResult

PayloadNext ==
    \/ Constructor
    \/ SocketOpen
    \/ SocketClosing
    \/ SendCommand
    \/ \E id \in Ids : CommandTimeout(id)

PayloadSpec == PayloadInit /\ [][PayloadNext]_vars

\* The tool handlers applied to every tool request of ToolCalls.
ToolInit ==
    /\ constructed = FALSE
    /\ ws = "null"
    /\ isConnectedFlag = FALSE
    /\ reconnectTimeoutId = 0
    /\ pingIntervalId = 0
    /\ responsePromises = <<>>
    /\ timer = [i \in Ids |-> 0]
    /\ sendCallbacks = {}
    /\ calls = [i \in Ids |-> <<>>]
    /\ nextId = 1
    /\ closeCalls = 0
    /\ logged = NoLog
    /\ commandPayload = PingPayload
    /\ commandString = NoCommandString
    /\ toolArgs = NoToolArgs
    /\ toolCall \in ToolCalls
    /\ toolResult = NoToolResult

\* The handler of the requested tool runs to its return or throw.
ToolHandler ==
    /\ toolResult = NoToolResult
    /\ toolResult' = IF toolCall.tool = PING_UNITY_BRIDGE
                     THEN ProcessPingRequest(toolCall)
                     ELSE ProcessRequest(toolCall)
    /\ UNCHANGED <<constructed, ws, isConnectedFlag, reconnectTimeoutId, pingIntervalId,
                   responsePromises, timer, sendCallbacks, calls, nextId, closeCalls,
                   logged, commandPayload, commandString, toolArgs, toolCall>>

ToolSpec == ToolInit /\ [][ToolHandler]_vars

\* GameObjectIdentifierSchema applied to every identifier of
\* GameObjectIdentifiers.
IdentifierInit ==
    /\ constructed = FALSE
    /\ ws = "null"
    /\ isConnectedFlag = FALSE
    /\ reconnectTimeoutId = 0
    /\ pingIntervalId = 0
    /\ responsePromises = <<>>
    /\ timer = [i \in Ids |-> 0]
    /\ sendCallbacks = {}
    /\ calls = [i \in Ids |-> <<>>]
    /\ nextId = 1
    /\ closeCalls = 0
    /\ logged = NoLog
    /\ commandPayload = PingPayload
    /\ commandString = NoCommandString
    /\ toolArgs \in GameObjectIdentifiers
    /\ toolCall = NoToolCall
    /\ toolResult = NoToolResult

\* GameObjectIdentifierSchema.safeParse(toolArgs)
ParseIdentifier ==
    /\ toolResult = NoToolResult
    /\ toolResult' =
          IF GameObjectIdentifierSchema(toolArgs)
          THEN Parsed
          ELSE ZodError("At least one identifier (name, path, or instance_id) must be provided.")
    /\ UNCHANGED <<constructed, ws, isConnectedFlag, reconnectTimeoutId, pingIntervalId,
                   responsePromises, timer, sendCallbacks, calls, nextId, closeCalls,
                   logged, commandPayload, commandString, toolArgs, toolCall>>

IdentifierSpec == IdentifierInit /\ [][ParseIdentifier]_vars

\* A manage_asset request with each value of ManageAssetArgs: one request
\* per run, to a client that connects and may be losing its socket.
AssetInit ==
    /\ constructed = FALSE
    /\ ws = "null"
    /\ isConnectedFlag = FALSE
    /\ reconnectTimeoutId = 0
    /\ pingIntervalId = 0
    /\ responsePromises = <<>>
    /\ timer = [i \in Ids |-> 0]
    /\ sendCallbacks = {}
    /\ calls = [i \in Ids |-> <<>>]
    /\ nextId = 1
    /\ closeCalls = 0
    /\ logged = NoLog
    /\ commandPayload = PingPayload
    /\ commandString = NoCommandString
    /\ toolArgs \in ManageAssetArgs
    /\ toolCall = NoToolCall
    /\ toolResult = NoToolResult

\* The server receives the manage_asset request: it parses the arguments
\* with the schema of the registration and, when they pass, calls
\* processRequest, which calls sendCommand({command: TOOL_NAME, parameters:
\* args}) and awaits the response.
ManageAssetToolCall ==
    /\ constructed
    /\ toolResult = NoToolResult
    /\ IF ~ToolParamsAccepts(toolArgs)
       THEN /\ toolResult' = McpError(InvalidParams, "Invalid arguments for tool manage_asset")
            /\ UNCHANGED <<commandPayload, commandString, nextId, calls, responsePromises,
                           timer, sendCallbacks>>
       ELSE /\ commandPayload' = <<<<"command", MANAGE_ASSET>>,
                                   <<"parameters", StringifyArgs(toolArgs)>>>>
            /\ nextId' = nextId + 1
            /\ IF ~IsConnected
               THEN /\ calls' = [calls EXCEPT ![nextId] = Append(@, Reject(ErrNotConnected))]
                    /\ toolResult' = McpError(InternalError,
                                              "Failed to execute " \o MANAGE_ASSET \o ": "
                                                 \o ErrNotConnected)
                    /\ UNCHANGED <<responsePromises, timer, sendCallbacks, commandString>>
               ELSE /\ timer' = [timer EXCEPT ![nextId] = COMMAND_TIMEOUT_MS]
                    /\ responsePromises' = Append(responsePromises, nextId)
                    /\ sendCallbacks' = sendCallbacks \cup {nextId}
                    /\ commandString' =
                          JSONStringify(PayloadWithId(commandPayload', UuidV4(nextId)))
                    /\ toolResult' = Pending
                    /\ UNCHANGED calls
    /\ logged' = NoLog
    /\ UNCHANGED <<constructed, ws, isConnectedFlag, reconnectTimeoutId, pingIntervalId,
                   closeCalls, toolArgs, toolCall>>

AssetNext ==
    \/ Constructor
    \/ SocketOpen
    \/ SocketClosing
    \/ ManageAssetToolCall

AssetSpec == AssetInit /\ [][AssetNext]_vars

\* connect() invoked while the client holds a socket.  The class itself calls
\* it only with ws = null, from the constructor and from the reconnect timer.
ConnectCall ==
    /\ constructed
    /\ ws # "null"
    /\ Connect
    /\ UNCHANGED constructed

\* The client with connect() open to callers.
ConnectSpec == Init /\ [][Next \/ ConnectCall]_vars

PingToolCallNoPreCheck ==
    /\ constructed
    /\ SendCommand

\* A ping_unity_bridge request arrives: processPingRequest runs up to its
\* throw or its await.  Not connected, it throws without calling
\* sendCommand; connected, it calls sendCommand with the ping payload and
\* waits for the promise (the mapping of the outcome is ToolHandler).
PingToolCall ==
    /\ constructed
    /\ IF ~IsConnected
       THEN /\ toolCall' = [tool |-> PING_UNITY_BRIDGE, connected |-> FALSE,
                            outcome |-> NoOutcome]
            /\ toolResult' = ProcessPingRequest(toolCall')
            /\ logged' = NoLog
            /\ UNCHANGED <<constructed, ws, isConnectedFlag, reconnectTimeoutId,
                           pingIntervalId, responsePromises, timer, sendCallbacks,
                           calls, nextId, closeCalls, commandPayload, commandString,
                           toolArgs>>
       ELSE SendCommand

\* The client with the ping_unity_bridge tool calling it.
PingSpec == Init /\ [][Next \/ PingToolCall]_vars

\* Timers fire and socket events are delivered as long as the event loop
\* runs: a live timeout timer eventually fires.
FairSpec == Spec /\ \A id \in Ids : WF_vars(CommandTimeout(id))

\* ================================================================= claims

\* The connection-failure errors handleDisconnect rejects with.
ConnectionFailures == {Reject(RequestFailed(ReasonClosed)), Reject(RequestFailed(ReasonError))}

\* C1: a response carrying correlation id X that arrives while X is pending
\* resolves exactly request X with that response, and removes exactly X,
\* however many other requests are pending.
C1_NoCrossResolution ==
    [][\A data \in ResponseObjects :
          (HandleMessage(data) /\ data.correlationId \in Keys(responsePromises))
          => /\ calls' = [calls EXCEPT ![data.correlationId] = Append(@, Resolve(data))]
             /\ responsePromises' = MapDelete(responsePromises, data.correlationId)]_vars

\* C2: every request sendCommand accepted (its id entered the pending map)
\* eventually has an outcome.
C2_EveryRequestSettles ==
    \A id \in Ids : (id \in Keys(responsePromises)) ~> Settled(id)

\* C2 witness: an accepted request was sent successfully and then settled.
C2_Witness ==
    \E id \in Ids : /\ Settled(id)
                    /\ Outcome(id) # Reject(ErrNotConnected)
                    /\ id \notin sendCallbacks

\* C3 as stated: once a request has been completed, no handler makes a
\* further resolve/reject call on it.
C3_NoSecondCall ==
    \A id \in Ids : Len(calls[id]) <= 1

\* C3 amended: a completed request is out of the map with its timer
\* cancelled, its outcome never changes, and the only handler that still
\* calls reject on it is the send-error callback of that same request.
C3_SettledOnce ==
    [][\A id \in Ids :
          Settled(id) =>
             /\ id \notin Keys(responsePromises)
             /\ timer[id] = 0
             /\ Settled(id)' /\ Outcome(id)' = Outcome(id)
             /\ (calls'[id] # calls[id] =>
                    /\ SendCallback(id, TRUE)
                    /\ calls'[id] = Append(calls[id], Reject(ErrSend)))]_vars

\* C3 witness: the send-error callback ran for a request that a response had
\* already resolved; the outcome is still that response.
C3_Witness ==
    \E id \in Ids : /\ Len(calls[id]) = 2
                    /\ calls[id][1].type = "resolve"
                    /\ calls[id][2] = Reject(ErrSend)

\* C4: a message whose correlation id matches no pending entry changes no
\* pending request and leaves the connection as it is.
C4_UnmatchedDiscarded ==
    [][\A data \in Messages :
          (HandleMessage(data) /\ data.correlationId \notin Keys(responsePromises))
          => UNCHANGED <<responsePromises, timer, calls, ws, isConnectedFlag>>]_vars

\* C5: a socket 'close' or 'error' event while connected rejects every
\* pending request with a connection-failure error in that step, cancels
\* its timer and leaves the pending map empty.
C5_ConnectionLossFailsAll ==
    [][((SocketClose \/ SocketError) /\ isConnectedFlag)
          => /\ responsePromises' = <<>>
             /\ \A id \in Keys(responsePromises) :
                   /\ \E failure \in ConnectionFailures :
                         calls'[id] = Append(calls[id], failure)
                   /\ timer'[id] = 0
             /\ \A id \in Ids \ Keys(responsePromises) : calls'[id] = calls[id]]_vars

\* C5 witness: two requests were failed by a 'close' event and the map is empty.
C5_Witness ==
    /\ responsePromises = <<>>
    /\ ~isConnectedFlag
    /\ \E a, b \in Ids : /\ a # b
                         /\ calls[a] = <<Reject(RequestFailed(ReasonClosed))>>
                         /\ calls[b] = <<Reject(RequestFailed(ReasonClosed))>>

\* C6: sendCommand called while the flag is clear or the socket is not OPEN
\* rejects with the not-connected error and changes nothing else: no map
\* entry, no timer, no socket write.
C6_NotConnectedRejects ==
    [][(SendCommand /\ ~(isConnectedFlag /\ ws = OPEN))
          => /\ calls'[nextId] = <<Reject(ErrNotConnected)>>
             /\ UNCHANGED <<responsePromises, timer, sendCallbacks, ws, isConnectedFlag,
                            reconnectTimeoutId, pingIntervalId>>]_vars

\* C6 witness: a call was rejected as not connected while the flag was still
\* set (the socket had left OPEN) and another request was pending.
C6_Witness ==
    \E id \in Ids : /\ calls[id] = <<Reject(ErrNotConnected)>>
                    /\ isConnectedFlag
                    /\ ws = CLOSING
                    /\ responsePromises # <<>>

\* C7: a pending request carries a live timer of COMMAND_TIMEOUT_MS; when it
\* fires the request is still pending and unanswered, and the callback
\* rejects it with the timeout error and removes its id from the map.
C7_TimeoutRejectsAndRemoves ==
    [][/\ \A id \in Keys(responsePromises) : timer[id] = COMMAND_TIMEOUT_MS
       /\ \A id \in Ids :
             CommandTimeout(id)
             => /\ id \in Keys(responsePromises)
                /\ ~Settled(id)
                /\ calls'[id] = <<Reject(ErrTimeout)>>
                /\ id \notin Keys(responsePromises')]_vars

\* C7 witness: a request timed out and is no longer in the map.
C7_Witness ==
    \E id \in Ids : /\ calls[id] = <<Reject(ErrTimeout)>>
                    /\ id \notin Keys(responsePromises)
                    /\ timer[id] = 0

\* C8: once close() has been called there is never again a reconnect timer,
\* a keepalive interval, a socket or a set connected flag.
C8_ClosedStaysClosed ==
    closeCalls > 0 =>
        /\ reconnectTimeoutId = 0
        /\ pingIntervalId = 0
        /\ ws = "null"
        /\ ~isConnectedFlag

\* C8 witness: close() ran with a send in flight, whose callback ran later.
C8_Witness ==
    /\ closeCalls > 0
    /\ \E id \in Ids : calls[id] = <<Reject(RequestFailed(ReasonClosing)), Reject(ErrSend)>>

\* C9: close() rejects every pending request with the connection-closing
\* error, empties the map and leaves no timeout timer live.
C9_CloseFailsAll ==
    [][Close
          => /\ responsePromises' = <<>>
             /\ \A id \in Keys(responsePromises) :
                   calls'[id] = Append(calls[id], Reject(RequestFailed(ReasonClosing)))
             /\ \A id \in Ids \ Keys(responsePromises) : calls'[id] = calls[id]
             /\ \A id \in Ids : timer'[id] = 0]_vars

\* C9 witness: close() failed two pending requests.
C9_Witness ==
    /\ closeCalls = 1
    /\ responsePromises = <<>>
    /\ \E a, b \in Ids : /\ a # b
                         /\ calls[a] = <<Reject(RequestFailed(ReasonClosing))>>
                         /\ calls[b] = <<Reject(RequestFailed(ReasonClosing))>>

\* C10: a close() call after an earlier close() changes nothing: socket,
\* flag, timers, pending map and every caller's promise stay as the first
\* call left them.
C10_CloseIdempotent ==
    [][(Close /\ closeCalls > 0)
          => UNCHANGED <<ws, isConnectedFlag, reconnectTimeoutId, pingIntervalId,
                         responsePromises, timer, calls, sendCallbacks>>]_vars

\* C10 witness: close() has been called twice, the first time with a
\* request pending.
C10_Witness ==
    /\ closeCalls = 2
    /\ \E id \in Ids : calls[id] = <<Reject(RequestFailed(ReasonClosing))>>

\* C11: a socket 'close' or 'error' event (a lost connection or a failed
\* connection attempt) leaves a reconnect timer of RECONNECT_DELAY_MS pending
\* when its handler returns; close() has not been called whenever such an
\* event is delivered.
C11_FailureSchedulesReconnect ==
    [][(SocketClose \/ SocketError)
          => /\ closeCalls = 0
             /\ reconnectTimeoutId' = RECONNECT_DELAY_MS
             /\ ws' = "null"
             /\ ~isConnectedFlag']_vars

\* C11 witness: a connection error failed a pending request and left a
\* reconnect timer pending.
C11_Witness ==
    /\ reconnectTimeoutId = RECONNECT_DELAY_MS
    /\ ws = "null"
    /\ closeCalls = 0
    /\ \E id \in Ids : calls[id] = <<Reject(RequestFailed(ReasonError))>>

\* C12: while close() has not been called the constructed client always has
\* a socket or a pending reconnect timer, and whenever it has no open or
\* connecting socket a new connection attempt eventually starts (or close()
\* is called).
C12_KeepsRetrying ==
    /\ [](constructed /\ closeCalls = 0 => ws # "null" \/ reconnectTimeoutId # 0)
    /\ ((constructed /\ closeCalls = 0 /\ ws \notin {OPEN, CONNECTING})
           ~> (ws = CONNECTING \/ closeCalls > 0))

\* C12 witness: after a lost connection the reconnect timer fired and a new
\* attempt is under way.
C12_Witness ==
    /\ ws = CONNECTING
    /\ closeCalls = 0
    /\ \E id \in Ids : calls[id] = <<Reject(RequestFailed(ReasonClosed))>>

\* C13: a keepalive ping whose send fails runs the disconnect path in that
\* step: the connected flag is cleared, every pending request is failed and
\* a reconnect is scheduled.
C13_PingFailureDisconnects ==
    [][logged' = LogPingFailed
          => /\ ~isConnectedFlag'
             /\ responsePromises' = <<>>
             /\ reconnectTimeoutId' = RECONNECT_DELAY_MS]_vars

\* C14: a message that fails to parse is logged and changes nothing: the
\* pending map, the timers, the callers' promises, the connected flag, the
\* socket and the reconnect and keepalive timers are as before.
C14_MalformedDiscarded ==
    [][(HandleMessage(Malformed) \/ logged' = LogParseError)
          => /\ logged' = LogParseError
             /\ UNCHANGED <<responsePromises, timer, calls, isConnectedFlag, ws,
                            reconnectTimeoutId, pingIntervalId, sendCallbacks>>]_vars

\* C14 witness: a malformed message was just discarded on an open socket
\* with two requests pending.
C14_Witness ==
    /\ logged = LogParseError
    /\ ws = OPEN
    /\ Len(responsePromises) = 2
    /\ \A id \in Keys(responsePromises) : timer[id] = COMMAND_TIMEOUT_MS /\ ~Settled(id)

\* C15: when the timeout timer of request X fires, every other request keeps
\* its place in the pending map, its timer and its promise, and the
\* connection (socket, flag, reconnect and keepalive timers) is unchanged.
C15_TimeoutLeavesOthers ==
    [][\A id \in Ids :
          CommandTimeout(id)
          => /\ responsePromises' = MapDelete(responsePromises, id)
             /\ \A other \in Ids \ {id} :
                   /\ timer'[other] = timer[other]
                   /\ calls'[other] = calls[other]
             /\ UNCHANGED <<ws, isConnectedFlag, reconnectTimeoutId, pingIntervalId>>]_vars

\* C15 witness: a request timed out while an earlier request was pending;
\* the earlier one is still pending with its timer live.
C15_Witness ==
    \E a, b \in Ids : /\ b < a
                      /\ calls[a] = <<Reject(ErrTimeout)>>
                      /\ responsePromises = <<b>>
                      /\ timer[b] = COMMAND_TIMEOUT_MS
                      /\ ~Settled(b)
                      /\ IsConnected

\* C16: a timeout timer is live for exactly the ids in the pending map, and
\* the map holds no id twice.
C16_NoTimerLeak ==
    /\ \A id \in Ids : timer[id] # 0 <=> id \in Keys(responsePromises)
    /\ Cardinality(Keys(responsePromises)) = Len(responsePromises)

\* C16 witness: one request is pending with its timer live while another
\* was removed by a send error and has no timer.
C16_Witness ==
    \E a, b \in Ids : /\ a \in Keys(responsePromises)
                      /\ timer[a] = COMMAND_TIMEOUT_MS
                      /\ calls[b] = <<Reject(ErrSend)>>
                      /\ b \notin Keys(responsePromises)
                      /\ timer[b] = 0

\* The errors the client rejects a caller's promise with.
ClientErrors ==
    {ErrNotConnected, ErrTimeout, ErrSend, ErrNullResponse,
     RequestFailed(ReasonClosed), RequestFailed(ReasonError), RequestFailed(ReasonClosing)}

\* C17: a response object with success false resolves the request it is
\* matched to with that response; every resolve call carries a response
\* object and every reject call carries one of the client's own errors.
C17_RemoteFailureResolves ==
    /\ [][\A data \in ResponseObjects :
             (~data.success /\ responsePromises # <<>> /\ HandleMessage(data))
             => calls'[responsePromises[1]] =
                   Append(calls[responsePromises[1]], Resolve(data))]_vars
    /\ [](\A id \in Ids : \A i \in 1..Len(calls[id]) :
             IF calls[id][i].type = "resolve"
             THEN calls[id][i].response \in ResponseObjects
             ELSE calls[id][i].error \in ClientErrors)

\* C17 witness: a request was resolved with a response reporting success false.
C17_Witness ==
    \E id \in Ids : /\ Settled(id)
                    /\ Outcome(id).type = "resolve"
                    /\ ~Outcome(id).response.success

\* C18: connect() called while the socket is connecting or open returns
\* after logging: the socket, the connected flag, the keepalive, the pending
\* map, the timers and the callers' promises are unchanged.
C18_ConnectWhileConnectedNoOp ==
    [][(ConnectCall /\ ws \in {CONNECTING, OPEN})
          => /\ logged' = LogConnectIgnored
             /\ UNCHANGED <<ws, isConnectedFlag, pingIntervalId, responsePromises,
                            timer, calls, sendCallbacks>>]_vars

\* C18 witness: connect() was just ignored on an open socket with a request
\* pending.
C18_Witness ==
    /\ logged = LogConnectIgnored
    /\ ws = OPEN
    /\ isConnectedFlag
    /\ responsePromises # <<>>

\* The connection state a caller observes: Connected when isConnected() holds,
\* Connecting while the current socket's handshake is in progress, else
\* Disconnected.  close() is one handler, so its Closing state is never
\* observed between handlers.
ConnState ==
    IF IsConnected THEN "Connected"
    ELSE IF ws = CONNECTING THEN "Connecting"
    ELSE "Disconnected"

Edges ==
    { <<"Disconnected", "Connecting">>, <<"Connecting", "Connected">>,
      <<"Connecting", "Disconnected">>, <<"Connected", "Disconnected">> }

\* C19: every step keeps the connection state or moves it along one of the
\* edges Disconnected -> Connecting -> Connected -> Disconnected and
\* Connecting -> Disconnected; close() always ends in Disconnected; the
\* connected flag is only ever set while the current socket is connecting.
C19_OnlySpecifiedEdges ==
    [][/\ ConnState' # ConnState => <<ConnState, ConnState'>> \in Edges
       /\ Close => ConnState' = "Disconnected"
       /\ (isConnectedFlag' /\ ~isConnectedFlag) => ws = CONNECTING]_vars

\* C19 witness: the client is connected for the second time: a request of
\* the first connection was failed by the socket closing, and the client
\* went through Disconnected and Connecting to Connected again.
C19_Witness ==
    /\ ConnState = "Connected"
    /\ \E id \in Ids : calls[id] = <<Reject(RequestFailed(ReasonClosed))>>

\* C20: in every state a ping interval exists exactly when the connected
\* flag is set, and the 'open' listener, the only place that creates one,
\* runs only when none exists, so there is never more than one.
C20_PingIffConnected ==
    /\ []((pingIntervalId # 0) <=> isConnectedFlag)
    /\ [](pingIntervalId \in {0, PING_INTERVAL_MS})
    /\ [][SocketOpen => pingIntervalId = 0 /\ pingIntervalId' = PING_INTERVAL_MS]_vars

\* C20 witness: the keepalive of a connection that answered a request was
\* torn down by a disconnect and a reconnect is scheduled.
C20_Witness ==
    /\ pingIntervalId = 0
    /\ ~isConnectedFlag
    /\ reconnectTimeoutId # 0
    /\ \E id \in Ids : Settled(id) /\ Outcome(id).type = "resolve"

\* C21: the pending map never holds an id twice; an accepted sendCommand
\* registers under an id that is not in the map, appends exactly that entry
\* and leaves every other pending request, its timer and its promise as
\* they were.
C21_FreshIdNoOverwrite ==
    /\ [](\A i, j \in 1..Len(responsePromises) :
             responsePromises[i] = responsePromises[j] => i = j)
    /\ [][(SendCommand /\ IsConnected)
             => /\ nextId \notin Keys(responsePromises)
                /\ responsePromises' = Append(responsePromises, nextId)
                /\ \A id \in Keys(responsePromises) :
                      timer'[id] = timer[id] /\ calls'[id] = calls[id]]_vars

\* C21 witness: a second request was registered while the first was still
\* pending; both are in the map, in registration order, neither settled.
C21_Witness ==
    /\ Len(responsePromises) = 2
    /\ responsePromises[1] < responsePromises[2]
    /\ \A id \in Keys(responsePromises) : ~Settled(id) /\ timer[id] = COMMAND_TIMEOUT_MS

\* C22: the send-error callback of a request that is still pending cancels
\* its timer, removes exactly its id and rejects its caller with the send
\* error, leaving the other requests and the connection as they were; when
\* the request is no longer pending, the map, the timers, the connection
\* and every caller's outcome stay as they were.
C22_SendErrorConsistent ==
    [][\A id \in Ids :
          SendCallback(id, TRUE)
          => /\ IF id \in Keys(responsePromises)
                THEN /\ timer' = [timer EXCEPT ![id] = 0]
                     /\ responsePromises' = MapDelete(responsePromises, id)
                     /\ calls'[id] = <<Reject(ErrSend)>>
                ELSE /\ UNCHANGED <<responsePromises, timer>>
                     /\ Settled(id)
                     /\ Outcome(id)' = Outcome(id)
             /\ \A other \in Ids \ {id} : calls'[other] = calls[other]
             /\ UNCHANGED <<ws, isConnectedFlag, reconnectTimeoutId, pingIntervalId>>]_vars

\* C22 witness: a send failed for one request while another was pending and
\* stayed pending; and the send-error callback of a request that a
\* disconnect had already failed ran without changing its outcome.
C22_Witness ==
    \E a, b \in Ids :
       /\ a # b
       /\ calls[a] = <<Reject(RequestFailed(ReasonError)), Reject(ErrSend)>>
       /\ calls[b] = <<Reject(ErrSend)>>

\* The members of a JSON object text, as a set.
Members(text) == {text[i] : i \in 1..Len(text)}

\* C23: the message an accepted sendCommand writes to the socket has every
\* property of the caller's payload other than correlationId, unchanged, and
\* exactly one more member: a correlationId equal to the id under which the
\* request was registered.  A correlationId of the caller's is not in it.
C23_OutboundCarriesRegisteredId ==
    [][(SendCommand /\ IsConnected)
          => LET requestId == UuidV4(responsePromises'[Len(responsePromises')])
                 kept == {i \in 1..Len(commandPayload) :
                             commandPayload[i][1] # "correlationId"}
             IN /\ \A i \in kept :
                      Member(commandPayload[i][1], commandPayload[i][2])
                         \in Members(commandString')
                /\ Member("correlationId", requestId) \in Members(commandString')
                /\ Len(commandString') = Cardinality(kept) + 1
                /\ Cardinality(Members(commandString')) = Len(commandString')]_vars

\* C23 witness: a command whose payload carried a correlationId of the
\* caller's was accepted and written with the generated id, and is pending.
C23_Witness ==
    /\ HasKey(commandPayload, "correlationId")
    /\ Len(responsePromises) = 2
    /\ Member("correlationId", UuidV4(responsePromises[2])) \in Members(commandString)
    /\ Member("command", "manage_asset") \in Members(commandString)

\* C24: constructing the client starts no connection attempt: after the
\* constructor the client holds no socket.
C24_ConstructionNoSideEffect ==
    [][Constructor => ws' = "null"]_vars

\* C25: whenever isConnected() is false the pending map is empty.
C25_NotConnectedMapEmpty ==
    ~IsConnected => responsePromises = <<>>

\* C26: the pending map lists the requests in registration order, and a
\* message that parses to a response object while a request is pending
\* resolves the first one with that object, cancels its timer and removes
\* it, whatever correlationId the object carries; the other entries, their
\* timers and their promises are unchanged.
C26_ResolvesInRegistrationOrder ==
    /\ [](\A i, j \in 1..Len(responsePromises) :
             i < j => responsePromises[i] < responsePromises[j])
    /\ [][\A data \in ResponseObjects :
             (responsePromises # <<>> /\ HandleMessage(data))
             => /\ calls' = [calls EXCEPT ![Head(responsePromises)] = <<Resolve(data)>>]
                /\ timer' = [timer EXCEPT ![Head(responsePromises)] = 0]
                /\ responsePromises' = Tail(responsePromises)]_vars

\* C26 witness: the first request was resolved with a response that carries
\* the correlationId of the second, which is still pending.
C26_Witness ==
    \E a, b \in Ids :
       /\ a < b
       /\ calls[a] = <<Resolve([kind |-> "object", correlationId |-> b, success |-> TRUE])>>
       /\ responsePromises = <<b>>
       /\ timer[b] = COMMAND_TIMEOUT_MS

\* C27: a message that parses to JSON null while a request is pending
\* rejects the first pending request with the null-response error, cancels
\* its timer and removes it, leaving the others as they were; with no
\* request pending it changes nothing.
C27_NullRejectsFirst ==
    [][HandleMessage(JsonNull)
          => IF responsePromises # <<>>
             THEN /\ calls' = [calls EXCEPT ![Head(responsePromises)] =
                                  <<Reject(ErrNullResponse)>>]
                  /\ timer' = [timer EXCEPT ![Head(responsePromises)] = 0]
                  /\ responsePromises' = Tail(responsePromises)
             ELSE UNCHANGED <<responsePromises, timer, calls, ws, isConnectedFlag,
                              reconnectTimeoutId, pingIntervalId, sendCallbacks>>]_vars

\* C27 witness: the first of two pending requests was rejected for a null
\* response and the second is still pending.
C27_Witness ==
    \E a, b \in Ids :
       /\ calls[a] = <<Reject(ErrNullResponse)>>
       /\ responsePromises = <<b>>
       /\ ~Settled(b)

\* C28: a reconnect timer is never pending while the client holds a
\* connecting or open socket or while the connected flag is set, and a
\* reconnect timer is only ever created when none is pending, so there is
\* never more than one.
C28_ReconnectTimerExclusive ==
    /\ [](reconnectTimeoutId # 0
             => /\ ws \notin {CONNECTING, OPEN}
                /\ ~isConnectedFlag
                /\ reconnectTimeoutId = RECONNECT_DELAY_MS)
    /\ [][reconnectTimeoutId' # 0
             => \/ UNCHANGED reconnectTimeoutId
                \/ reconnectTimeoutId = 0 /\ (SocketClose \/ SocketError)]_vars

\* C28 witness: a reconnect timer is pending and the client holds no socket,
\* after a 'close' event failed a request whose send then failed too.
C28_Witness ==
    /\ reconnectTimeoutId = RECONNECT_DELAY_MS
    /\ ws = "null"
    /\ ~isConnectedFlag
    /\ \E id \in Ids : calls[id] = <<Reject(RequestFailed(ReasonClosed)), Reject(ErrSend)>>

\* C29: a connection failure is handled by one handleDisconnect pass: a
\* 'close' or 'error' event reaches the handler only while no reconnect
\* timer is pending, the handler drops the socket with its listeners, so no
\* further event of that socket is delivered, and no request is ever failed
\* twice for a lost connection.
C29_FailureHandledOnce ==
    /\ [][(SocketClose \/ SocketError)
             => /\ reconnectTimeoutId = 0
                /\ ws' = "null"
                /\ reconnectTimeoutId' = RECONNECT_DELAY_MS]_vars
    /\ [](\A id \in Ids :
             Cardinality({i \in 1..Len(calls[id]) : calls[id][i] \in ConnectionFailures}) <= 1)

\* C29 witness: an 'error' event failed two pending requests, once each;
\* the socket is gone and one reconnect is scheduled.
C29_Witness ==
    /\ ws = "null"
    /\ reconnectTimeoutId = RECONNECT_DELAY_MS
    /\ responsePromises = <<>>
    /\ \E a, b \in Ids : /\ a # b
                         /\ calls[a] = <<Reject(RequestFailed(ReasonError))>>
                         /\ calls[b] = <<Reject(RequestFailed(ReasonError))>>

\* The texts a handler puts in its McpError for a response with success
\* false: the bridge's error string, bare or after the ping prefix, or the
\* handler's default text when the bridge gave none.
BridgeFailureTexts(response) ==
    IF Truthy(response.error)
    THEN {response.error, "Unity Bridge Error: " \o response.error}
    ELSE {"Unity Bridge reported an unspecified error.",
          "Unity Bridge Error: Unknown error from bridge"}

\* C30: every tool handler ends by returning text content or by throwing an
\* McpError with code InternalError; it returns content exactly when
\* sendCommand resolved with success true; for success false the McpError
\* carries the bridge's error string or the default text; for a rejection
\* of sendCommand it carries the rejection's message.
C30_ToolOutcomeMapping ==
    toolResult # NoToolResult =>
       /\ toolResult.kind \in {"content", "McpError"}
       /\ toolResult.kind = "McpError" => toolResult.code = InternalError
       /\ toolResult.kind = "content"
             <=> (toolCall.outcome.type = "resolve" /\ toolCall.outcome.response.success)
       /\ (toolCall.outcome.type = "resolve" /\ ~toolCall.outcome.response.success)
             => toolResult.message \in BridgeFailureTexts(toolCall.outcome.response)
       /\ toolCall.outcome.type = "reject"
             => toolResult.message \in
                   {toolCall.outcome.error,
                    "Failed to execute " \o toolCall.tool \o ": " \o toolCall.outcome.error}

\* C30 witness: the ping handler threw an McpError for a sendCommand call
\* that timed out.
C30_Witness ==
    /\ toolCall.tool = PING_UNITY_BRIDGE
    /\ toolCall.outcome = Reject(ErrTimeout)
    /\ toolResult = McpError(InternalError, ErrTimeout)

\* C31: the ping_unity_bridge handler called while isConnected() is false
\* throws an McpError with code InternalError and does not call
\* sendCommand: no call is counted, no promise is rejected, no entry or
\* timer is created and nothing is written to the socket.
C31_PingNotConnectedThrows ==
    [][(PingToolCall /\ ~IsConnected)
          => /\ toolResult'.kind = "McpError"
             /\ toolResult'.code = InternalError
             /\ UNCHANGED <<nextId, calls, responsePromises, timer, sendCallbacks,
                            commandString, ws, isConnectedFlag>>]_vars

\* C31 witness: the ping handler threw while the socket had left OPEN with a
\* request still pending, and that request is untouched.
C31_Witness ==
    /\ toolResult = McpError(InternalError,
                             "Unity Bridge client is not available or not connected.")
    /\ ws = CLOSING
    /\ responsePromises = <<1>>
    /\ nextId = 2
    /\ calls[1] = <<>>

\* C33: a GameObject identifier is accepted exactly when at least one of
\* name, path and instance_id is provided; an identifier with only an
\* instance_id, whatever the integer, is accepted.
C33_IdentifierAcceptedIffProvided ==
    toolResult # NoToolResult =>
       (toolResult = Parsed
           <=> \/ toolArgs.name # Undefined
               \/ toolArgs.path # Undefined
               \/ toolArgs.instance_id # Absent)

\* C32: a manage_asset request is validated before it reaches sendCommand:
\* the command written to the socket never carries arguments that break a
\* rule of ManageAssetParamsSchema (move, rename or import without
\* destination_path; create_asset without asset_type; create_prefab without
\* a path ending in .prefab and a source_gameobject_identifier).
C32_InvalidAssetRequestNeverSent ==
    commandString # NoCommandString => ManageAssetParamsSchema(toolArgs)

====
